---- MODULE Spec2Model ----
(***************************************************************************)
(* Canary-rollout metric guard (tools/perf/openai_oauth_gray_guard.py) and *)
(* its drill harness (tools/perf/openai_oauth_gray_drill.py).              *)
(*                                                                         *)
(* Three specifications share the variables below:                         *)
(*   Spec       one Guard Runner process, from argv to its exit status;    *)
(*   SpecParse  parse_thresholds / parse_snapshot applied to one payload   *)
(*              whose fields range over every JSON value kind;             *)
(*   SpecDrill  one execution of the drill's main().                       *)
(***************************************************************************)
EXTENDS Integers, Sequences, FiniteSets, TLC

\* Numbers that appear in payloads are 0..MaxVal.
MaxVal == 1

\* Return codes a guard subprocess may hand back to the drill: 0..MaxReturnCode.
MaxReturnCode == 2

(***************************************************************************)
(* JSON values as Python sees them after json.loads.  Every value is a     *)
(* record of the same shape, k the kind and v the number it carries:       *)
(*   missing  the key is absent (dict.get returns None)                    *)
(*   null     None                                                         *)
(*   bool     False (v = 0) or True (v = 1)                                *)
(*   int      the number v                                                 *)
(*   bigint   an integer literal too large for a float                     *)
(*   numstr   a string holding the numeral v                               *)
(*   str      a string that is not a numeral                               *)
(*   nan      the float NaN                                                *)
(*   list     a list                                                       *)
(*   dict     a nested object                                              *)
(***************************************************************************)
J(kind, val) == [k |-> kind, v |-> val]

Missing == J("missing", 0)

Numbers == 0..MaxVal

RawValues ==
    {J(kind, 0) : kind \in {"missing", "null", "bigint", "str", "nan", "list", "dict"}}
        \cup {J("bool", b) : b \in {0, 1}}
        \cup {J("int", n) : n \in Numbers}
        \cup {J("numstr", n) : n \in Numbers}

\* Optional[float]: None, a float, or the float NaN.
NoneV == [k |-> "none", v |-> 0]

Float(n) == [k |-> "float", v |-> n]

NaN == [k |-> "nan", v |-> 0]

\* Python's a < b and a > b on floats: every comparison with NaN is False.
PyLt(a, b) == a.k = "float" /\ b.k = "float" /\ a.v < b.v

PyGt(a, b) == a.k = "float" /\ b.k = "float" /\ a.v > b.v

\* Python's v == 0 on a JSON value: False == 0 holds, None == 0 and "0" == 0 do not.
PyEqZero(v) == v.k \in {"int", "bool"} /\ v.v = 0

\* The outcome of a call: a value returned, or an exception raised.
Return(x) == [raised |-> FALSE, exc |-> "", val |-> x]

Raise(e) == [raised |-> TRUE, exc |-> e, val |-> NoneV]

(***************************************************************************)
(* The pure functions of the guard.                                        *)
(***************************************************************************)

\* A response as urlopen + json.loads deliver it.  transport is "ok" when the
\* request returned a document that json.loads accepted; body is the kind of the
\* decoded document, code the value under "code", data the kind of the value
\* under "data" and fields the keys of that value when it is a dict.
Response(tr, body, code, data, fields) ==
    [transport |-> tr, body |-> body, code |-> code, data |-> data, fields |-> fields]

\* request_json: HTTPError and URLError are re-raised as RuntimeError; a timeout
\* while reading and a document that is not JSON raise as they are.
request_json(resp) ==
    IF resp.transport = "ok" THEN Return(resp)
    ELSE IF resp.transport \in {"http_error", "url_error"} THEN Raise("RuntimeError")
    ELSE IF resp.transport = "timeout" THEN Raise("TimeoutError")
    ELSE Raise("JSONDecodeError")

\* Variant of parse_envelope_data: the code is tested for truth (if payload.get("code"))
\* instead of being compared with 0.
parse_envelope_data_truthy(payload) ==
    IF payload.body # "dict" THEN Raise("RuntimeError")
    ELSE IF ~(payload.code.k \in {"missing", "null"} \/ PyEqZero(payload.code))
    THEN Raise("RuntimeError")
    ELSE IF payload.data # "dict" THEN Raise("RuntimeError")
    ELSE Return(payload.fields)

parse_envelope_data(payload) ==
    IF payload.body # "dict" THEN Raise("RuntimeError")
    ELSE IF ~PyEqZero(payload.code) THEN Raise("RuntimeError")
    ELSE IF payload.data # "dict" THEN Raise("RuntimeError")
    ELSE Return(payload.fields)

\* float(v): a bool is an int (False -> 0.0, True -> 1.0), a numeral string is
\* converted, TypeError and ValueError give None, and the OverflowError of an
\* integer too large for a float is not caught.
to_float_or_none(v) ==
    IF v.k \in {"missing", "null"} THEN Return(NoneV)
    ELSE IF v.k \in {"int", "bool", "numstr"} THEN Return(Float(v.v))
    ELSE IF v.k = "nan" THEN Return(NaN)
    ELSE IF v.k \in {"str", "list", "dict"} THEN Return(NoneV)
    ELSE Raise("OverflowError")

GuardThresholds(a, b, c, d) ==
    [sla_percent_min |-> a, ttft_p99_ms_max |-> b,
     request_error_rate_percent_max |-> c, upstream_error_rate_percent_max |-> d]

GuardSnapshot(a, b, c, d) ==
    [sla |-> a, ttft_p99_ms |-> b,
     request_error_rate_percent |-> c, upstream_error_rate_percent |-> d]

parse_thresholds(data) ==
    LET a == to_float_or_none(data.sla_percent_min)
        b == to_float_or_none(data.ttft_p99_ms_max)
        c == to_float_or_none(data.request_error_rate_percent_max)
        d == to_float_or_none(data.upstream_error_rate_percent_max)
    IN  IF a.raised THEN a
        ELSE IF b.raised THEN b
        ELSE IF c.raised THEN c
        ELSE IF d.raised THEN d
        ELSE Return(GuardThresholds(a.val, b.val, c.val, d.val))

\* data["ttft"] is used only when it is a dict; otherwise p99_ms is looked up in {}.
parse_snapshot(data) ==
    LET ttft == IF data.ttft.k = "dict" THEN [p99_ms |-> data.p99_ms]
                ELSE [p99_ms |-> Missing]
        a == to_float_or_none(data.sla)
        b == to_float_or_none(ttft.p99_ms)
        c == to_float_or_none(data.error_rate)
        d == to_float_or_none(data.upstream_error_rate)
    IN  IF a.raised THEN a
        ELSE IF b.raised THEN b
        ELSE IF c.raised THEN c
        ELSE IF d.raised THEN d
        ELSE Return(GuardSnapshot(a.val, b.val, c.val, d.val))

\* One entry of evaluate's list: the metric, the observed value and the limit
\* that the message text formats.
Violation(metric, actual, threshold) ==
    [metric |-> metric, actual |-> actual, threshold |-> threshold]

IsNotNone(x) == x.k # "none"

\* Variant of SlaViolation: the comparison is <= instead of <.
SlaViolationNonStrict(snapshot, thresholds) ==
    IF IsNotNone(thresholds.sla_percent_min) /\ IsNotNone(snapshot.sla)
       /\ snapshot.sla.k = "float" /\ thresholds.sla_percent_min.k = "float"
       /\ snapshot.sla.v <= thresholds.sla_percent_min.v
    THEN <<Violation("sla", snapshot.sla, thresholds.sla_percent_min)>>
    ELSE <<>>

SlaViolation(snapshot, thresholds) ==
    IF IsNotNone(thresholds.sla_percent_min) /\ IsNotNone(snapshot.sla)
       /\ PyLt(snapshot.sla, thresholds.sla_percent_min)
    THEN <<Violation("sla", snapshot.sla, thresholds.sla_percent_min)>>
    ELSE <<>>

\* Variant of TtftViolation: a missing value counts as 0.0 (x or 0.0).
TtftViolationZeroDefault(snapshot, thresholds) ==
    LET actual == IF IsNotNone(snapshot.ttft_p99_ms) THEN snapshot.ttft_p99_ms
                  ELSE Float(0)
        limit == IF IsNotNone(thresholds.ttft_p99_ms_max) THEN thresholds.ttft_p99_ms_max
                 ELSE Float(0)
    IN  IF PyGt(actual, limit)
        THEN <<Violation("ttft_p99_ms", actual, limit)>>
        ELSE <<>>

\* Variant of TtftViolation: the comparison is < instead of >.
TtftViolationBelow(snapshot, thresholds) ==
    IF IsNotNone(thresholds.ttft_p99_ms_max) /\ IsNotNone(snapshot.ttft_p99_ms)
       /\ PyLt(snapshot.ttft_p99_ms, thresholds.ttft_p99_ms_max)
    THEN <<Violation("ttft_p99_ms", snapshot.ttft_p99_ms, thresholds.ttft_p99_ms_max)>>
    ELSE <<>>

TtftViolation(snapshot, thresholds) ==
    IF IsNotNone(thresholds.ttft_p99_ms_max) /\ IsNotNone(snapshot.ttft_p99_ms)
       /\ PyGt(snapshot.ttft_p99_ms, thresholds.ttft_p99_ms_max)
    THEN <<Violation("ttft_p99_ms", snapshot.ttft_p99_ms, thresholds.ttft_p99_ms_max)>>
    ELSE <<>>

RequestErrorViolation(snapshot, thresholds) ==
    IF IsNotNone(thresholds.request_error_rate_percent_max)
       /\ IsNotNone(snapshot.request_error_rate_percent)
       /\ PyGt(snapshot.request_error_rate_percent,
               thresholds.request_error_rate_percent_max)
    THEN <<Violation("request_error_rate", snapshot.request_error_rate_percent,
                     thresholds.request_error_rate_percent_max)>>
    ELSE <<>>

UpstreamErrorViolation(snapshot, thresholds) ==
    IF IsNotNone(thresholds.upstream_error_rate_percent_max)
       /\ IsNotNone(snapshot.upstream_error_rate_percent)
       /\ PyGt(snapshot.upstream_error_rate_percent,
               thresholds.upstream_error_rate_percent_max)
    THEN <<Violation("upstream_error_rate", snapshot.upstream_error_rate_percent,
                     thresholds.upstream_error_rate_percent_max)>>
    ELSE <<>>

\* Variant of evaluate: the latency check comes before the availability check.
evaluateLatencyFirst(snapshot, thresholds) ==
    TtftViolation(snapshot, thresholds)
        \o SlaViolation(snapshot, thresholds)
        \o RequestErrorViolation(snapshot, thresholds)
        \o UpstreamErrorViolation(snapshot, thresholds)

evaluate(snapshot, thresholds) ==
    SlaViolation(snapshot, thresholds)
        \o TtftViolation(snapshot, thresholds)
        \o RequestErrorViolation(snapshot, thresholds)
        \o UpstreamErrorViolation(snapshot, thresholds)

\* Python's a < b and a > b raise TypeError when an operand is None.
PyCompareRaises(a, b) == a.k = "none" \/ b.k = "none"

\* Variant of SlaCompareRaises: the comparison is made without the two
\* "is not None" tests before it.
SlaCompareRaisesUnguarded(snapshot, thresholds) ==
    PyCompareRaises(snapshot.sla, thresholds.sla_percent_min)

\* Whether evaluate's availability check raises: its comparison is evaluated
\* only after both "is not None" tests have passed.
SlaCompareRaises(snapshot, thresholds) ==
    /\ IsNotNone(thresholds.sla_percent_min)
    /\ IsNotNone(snapshot.sla)
    /\ PyCompareRaises(snapshot.sla, thresholds.sla_percent_min)

TtftCompareRaises(snapshot, thresholds) ==
    /\ IsNotNone(thresholds.ttft_p99_ms_max)
    /\ IsNotNone(snapshot.ttft_p99_ms)
    /\ PyCompareRaises(snapshot.ttft_p99_ms, thresholds.ttft_p99_ms_max)

RequestErrorCompareRaises(snapshot, thresholds) ==
    /\ IsNotNone(thresholds.request_error_rate_percent_max)
    /\ IsNotNone(snapshot.request_error_rate_percent)
    /\ PyCompareRaises(snapshot.request_error_rate_percent,
                       thresholds.request_error_rate_percent_max)

UpstreamErrorCompareRaises(snapshot, thresholds) ==
    /\ IsNotNone(thresholds.upstream_error_rate_percent_max)
    /\ IsNotNone(snapshot.upstream_error_rate_percent)
    /\ PyCompareRaises(snapshot.upstream_error_rate_percent,
                       thresholds.upstream_error_rate_percent_max)

\* Whether a call of evaluate ends in an exception instead of returning its list.
evaluate_raises(snapshot, thresholds) ==
    \/ SlaCompareRaises(snapshot, thresholds)
    \/ TtftCompareRaises(snapshot, thresholds)
    \/ RequestErrorCompareRaises(snapshot, thresholds)
    \/ UpstreamErrorCompareRaises(snapshot, thresholds)

(***************************************************************************)
(* State.                                                                  *)
(***************************************************************************)
VARIABLES
    gpc,            \* Guard Runner: where the process is in main()
    args,           \* Guard Runner: what the command line gave
    requests,       \* Guard Runner: the GET requests issued, in order
    served,         \* the remote side: the responses it gave, in order
    thresholds,     \* Guard Runner: parse_thresholds' result
    snapshot,       \* Guard Runner: parse_snapshot's result
    violations,     \* Guard Runner: evaluate's result
    stdout,         \* Guard Runner: lines printed on standard output
    stderr,         \* Guard Runner: lines printed on the error stream
    exit_status,    \* Guard Runner: <<>> while running, <<status>> once exited
    dpc,            \* drill: where main() is
    server,         \* drill: the stub host
    invocations,    \* drill: the stages run_guard was called for, in order
    inflight,       \* drill: the stage whose guard subprocess is running, or <<>>
    rows,           \* drill: the report's table rows
    all_pass,       \* drill: main's all_pass
    rollback,       \* drill: <<>>, then <<[code, triggered]>> after the rollback stage
    report,         \* drill: <<>>, then <<the report written to REPORT_PATH>>
    drill_exit,     \* drill: <<>> while running, <<status>> once main returned
    THRESHOLDS,     \* stub host: the module's THRESHOLDS dict
    STAGE_SNAPSHOTS, \* stub host: the module's STAGE_SNAPSHOTS dict
    probe           \* stub host: <<>>, or the last GET of another client and its answer

guard_vars ==
    <<gpc, args, requests, served, thresholds, snapshot, violations,
      stdout, stderr, exit_status>>

drill_vars ==
    <<dpc, server, invocations, inflight, rows, all_pass, rollback, report, drill_exit>>

stub_vars == <<THRESHOLDS, STAGE_SNAPSHOTS, probe>>

vars == <<guard_vars, drill_vars, stub_vars>>

(***************************************************************************)
(* Guard Runner: main() of openai_oauth_gray_guard.py.                     *)
(***************************************************************************)

\* Strings are sequences of tokens; " " is the whitespace token.
RECURSIVE LStrip(_)
LStrip(s) == IF s # <<>> /\ Head(s) = " " THEN LStrip(Tail(s)) ELSE s

RECURSIVE RStrip(_)
RStrip(s) ==
    IF s # <<>> /\ s[Len(s)] = " " THEN RStrip(SubSeq(s, 1, Len(s) - 1)) ELSE s

Strip(s) == RStrip(LStrip(s))

\* One printed line: a tag, and for a violation line its number and its metric.
Line(tag, idx, metric) == [t |-> tag, i |-> idx, m |-> metric]

\* The request for the thresholds carries no query.
ThresholdRequest ==
    [path |-> "/api/v1/admin/ops/settings/metric-thresholds", query |-> <<>>]

Param(key, value) == [key |-> key, value |-> value]

\* Variant of OverviewRequest: group_id is sent as given whenever it is not the
\* empty string.
OverviewRequestRaw(a) ==
    [path |-> "/api/v1/admin/ops/dashboard/overview",
     query |-> <<Param("platform", a.platform), Param("time_range", a.time_range)>>
                 \o (IF a.group_id # <<>>
                     THEN <<Param("group_id", a.group_id)>>
                     ELSE <<>>)]

\* The request for the overview: platform and time_range always, group_id when
\* it is not blank.
OverviewRequest(a) ==
    [path |-> "/api/v1/admin/ops/dashboard/overview",
     query |-> <<Param("platform", a.platform), Param("time_range", a.time_range)>>
                 \o (IF Strip(a.group_id) # <<>>
                     THEN <<Param("group_id", Strip(a.group_id))>>
                     ELSE <<>>)]

NoThresholds == GuardThresholds(NoneV, NoneV, NoneV, NoneV)

NoSnapshot == GuardSnapshot(NoneV, NoneV, NoneV, NoneV)

\* argparse ends the process with this status when a required argument is missing.
ArgparseErrorStatus == 2

\* main's except branch.
OperationalFailureStatus == 1

\* main's two returns after evaluate.
BreachStatus == 2

PassStatus == 0

\* Variant of VerdictStatus: a non-empty list is reported as a pass.
VerdictStatusNeverBreach(vs) == PassStatus

\* The mapping of evaluate's list to the status main returns.
VerdictStatus(vs) == IF vs # <<>> THEN BreachStatus ELSE PassStatus

\* What main prints once both fetches are done.
ReportLines(vs) ==
    <<Line("snapshot_header", 0, ""), Line("snapshot_json", 0, ""),
      Line("thresholds_header", 0, ""), Line("thresholds_json", 0, "")>>
        \o (IF vs # <<>>
            THEN <<Line("violations_header", 0, "")>>
                     \o [i \in 1..Len(vs) |-> Line("violation", i, vs[i].metric)]
                     \o <<Line("advice", 0, "")>>
            ELSE <<Line("pass", 0, "")>>)

\* The thresholds pipeline of main: request_json, parse_envelope_data,
\* parse_thresholds; the first exception ends it.
FetchThresholds(resp) ==
    LET raw == request_json(resp)
        data == IF raw.raised THEN raw ELSE parse_envelope_data(raw.val)
    IN  IF data.raised THEN data ELSE parse_thresholds(data.val)

\* The overview pipeline of main.
FetchSnapshot(resp) ==
    LET raw == request_json(resp)
        data == IF raw.raised THEN raw ELSE parse_envelope_data(raw.val)
    IN  IF data.raised THEN data ELSE parse_snapshot(data.val)

\* The keys of the two payloads.
ThresholdFields(a, b, c, d) ==
    [sla_percent_min |-> a, ttft_p99_ms_max |-> b,
     request_error_rate_percent_max |-> c, upstream_error_rate_percent_max |-> d]

\* ttft is the value under "ttft" and p99_ms the value under its "p99_ms" when
\* it is a dict (Missing otherwise).
SnapshotFields(sla, ttft, p99, er, uer) ==
    [sla |-> sla, ttft |-> ttft, p99_ms |-> p99, error_rate |-> er,
     upstream_error_rate |-> uer]

(***************************************************************************)
(* What the remote side may answer in Spec: every transport failure, every *)
(* malformed envelope, and every payload whose fields are null, NaN or a   *)
(* number (plus one payload holding an integer too large for a float).     *)
(***************************************************************************)
GuardFieldValues == {J("null", 0), J("nan", 0)} \cup {J("int", n) : n \in Numbers}

TransportFailures == {"http_error", "url_error", "timeout", "bad_json"}

NonDictKinds == {"missing", "null", "list", "str"}

EnvelopeCodes ==
    {Missing, J("null", 0), J("int", 0), J("int", 1), J("bool", 0), J("bool", 1),
     J("numstr", 0)}

ThresholdPayloads ==
    {ThresholdFields(a, b, c, d) :
        a \in GuardFieldValues, b \in GuardFieldValues,
        c \in GuardFieldValues, d \in GuardFieldValues}
        \cup {ThresholdFields(J("int", 0), J("bigint", 0), J("int", 0), J("int", 0))}

SnapshotPayloads ==
    {SnapshotFields(a, J("dict", 0), b, c, d) :
        a \in GuardFieldValues, b \in GuardFieldValues,
        c \in GuardFieldValues, d \in GuardFieldValues}
        \cup {SnapshotFields(J("int", 0), J("dict", 0), J("int", 0), J("bigint", 0),
                             J("int", 0))}

Responses(default, payloads) ==
    {Response(tr, "none", Missing, "missing", default) : tr \in TransportFailures}
        \cup {Response("ok", b, Missing, "missing", default) :
                b \in NonDictKinds \ {"missing"}}
        \cup {Response("ok", "dict", c, d, default) :
                c \in EnvelopeCodes, d \in NonDictKinds \cup {"dict"}}
        \cup {Response("ok", "dict", J("int", 0), "dict", f) : f \in payloads}

ThresholdResponses ==
    Responses(ThresholdFields(J("int", 1), J("int", 1), J("int", 1), J("int", 1)),
              ThresholdPayloads)

SnapshotResponses ==
    Responses(SnapshotFields(J("int", 1), J("dict", 0), J("int", 1), J("int", 1),
                             J("int", 1)),
              SnapshotPayloads)

GroupIdInputs == {<<>>, <<" ">>, <<" ", "A", " ">>}

GuardArgs ==
    [has_base_url : BOOLEAN, platform : {<<"openai">>}, time_range : {<<"30m">>},
     group_id : GroupIdInputs]

(***************************************************************************)
(* The stub host of the drill: THRESHOLDS, STAGE_SNAPSHOTS and             *)
(* _MockHandler.do_GET.  Numbers are in hundredths (99.78 is 9978), so     *)
(* that the canned values are integers.                                    *)
(***************************************************************************)
CannedThresholds ==
    [sla_percent_min |-> 9950, ttft_p99_ms_max |-> 90000,
     request_error_rate_percent_max |-> 200, upstream_error_rate_percent_max |-> 200]

Canned(sla, ttft, er, uer) ==
    [sla |-> sla, ttft |-> ttft, error_rate |-> er, upstream_error_rate |-> uer]

\* The keys are strings, written as token sequences like every string of args.
CannedSnapshots ==
    [stage \in {<<"A">>, <<"B">>, <<"C">>, <<"D">>, <<"rollback">>} |->
        CASE stage = <<"A">> -> Canned(9978, 78000, 120, 105)
          [] stage = <<"B">> -> Canned(9982, 73000, 105, 92)
          [] stage = <<"C">> -> Canned(9986, 68000, 88, 80)
          [] stage = <<"D">> -> Canned(9989, 64000, 72, 67)
          [] stage = <<"rollback">> -> Canned(9710, 155000, 630, 560)]

StubIdle ==
    /\ THRESHOLDS = CannedThresholds
    /\ STAGE_SNAPSHOTS = CannedSnapshots
    /\ probe = <<>>

ThresholdsPath == "/api/v1/admin/ops/settings/metric-thresholds"

OverviewPath == "/api/v1/admin/ops/dashboard/overview"

\* parse_qs(parsed.query).get(key): the values given for key, blank values dropped.
QueryGet(query, key) ==
    LET Given(p) == p.key = key /\ p.value # <<>>
    IN  [i \in 1..Len(SelectSeq(query, Given)) |-> SelectSeq(query, Given)[i].value]

\* Variant of StageOf: the group_id of the request is ignored.
StageOfAlwaysA(query) == <<"A">>

\* stage = (q.get("group_id") or ["A"])[0]
StageOf(query) ==
    IF QueryGet(query, "group_id") # <<>> THEN QueryGet(query, "group_id")[1]
    ELSE <<"A">>

\* Variant of LookupSnapshot: an unknown stage gets the rollback snapshot.
LookupSnapshotDefaultRollback(table, stage) ==
    IF stage \in DOMAIN table THEN table[stage] ELSE table[<<"rollback">>]

\* STAGE_SNAPSHOTS.get(stage, STAGE_SNAPSHOTS["A"])
LookupSnapshot(table, stage) ==
    IF stage \in DOMAIN table THEN table[stage] ELSE table[<<"A">>]

\* _write_json(payload): status 200 and the payload as a JSON document.
WriteJson(fields) == Response("ok", "dict", J("int", 0), "dict", fields)

\* send_response(404): urlopen raises HTTPError for it.
NotFound == Response("http_error", "none", Missing, "missing", <<>>)

\* What a client receives for its GET: do_GET's answer.
do_GET(req, thr, table) ==
    IF req.path = ThresholdsPath
    THEN WriteJson(ThresholdFields(J("int", thr.sla_percent_min),
                                   J("int", thr.ttft_p99_ms_max),
                                   J("int", thr.request_error_rate_percent_max),
                                   J("int", thr.upstream_error_rate_percent_max)))
    ELSE IF req.path = OverviewPath
    THEN LET snap == LookupSnapshot(table, StageOf(req.query))
         IN  WriteJson(SnapshotFields(J("int", snap.sla), J("dict", 0),
                                      J("int", snap.ttft), J("int", snap.error_rate),
                                      J("int", snap.upstream_error_rate)))
    ELSE NotFound

\* Variant of TablesAfterGet: the overview handler keeps the snapshot it
\* served as the default entry (STAGE_SNAPSHOTS["A"] = snapshot).
TablesAfterGetCacheDefault(req, thr, table) ==
    IF req.path = OverviewPath
    THEN <<thr, [table EXCEPT ![<<"A">>] = LookupSnapshot(table, StageOf(req.query))]>>
    ELSE <<thr, table>>

\* Variant of TablesAfterGet: the overview handler takes the snapshot out of
\* the dict (STAGE_SNAPSHOTS.pop) instead of reading it.
TablesAfterGetPop(req, thr, table) ==
    IF req.path = OverviewPath /\ StageOf(req.query) \in DOMAIN table
    THEN <<thr, [st \in DOMAIN table \ {StageOf(req.query)} |-> table[st]]>>
    ELSE <<thr, table>>

\* The two dicts after a GET: do_GET only reads them.
TablesAfterGet(req, thr, table) == <<thr, table>>

\* The guard when no guard process is being modelled.
GuardIdle ==
    /\ gpc = "idle"
    /\ args = [has_base_url |-> TRUE, platform |-> <<"openai">>,
               time_range |-> <<"30m">>, group_id |-> <<>>]
    /\ requests = <<>>
    /\ served = <<>>
    /\ thresholds = NoThresholds
    /\ snapshot = NoSnapshot
    /\ violations = <<>>
    /\ stdout = <<>>
    /\ stderr = <<>>
    /\ exit_status = <<>>

\* The drill when no drill is being modelled.
DrillIdle ==
    /\ dpc = "idle"
    /\ server = "none"
    /\ invocations = <<>>
    /\ inflight = <<>>
    /\ rows = <<>>
    /\ all_pass = TRUE
    /\ rollback = <<>>
    /\ report = <<>>
    /\ drill_exit = <<>>

\* parser.parse_args(): a command line without --base-url ends the process in
\* parser.error, before main's try block.
GuardParseArgs ==
    /\ gpc = "parse_args"
    /\ IF args.has_base_url
       THEN /\ gpc' = "fetch_thresholds"
            /\ UNCHANGED <<stderr, exit_status>>
       ELSE /\ gpc' = "exited"
            /\ stderr' = Append(stderr, Line("usage", 0, ""))
            /\ exit_status' = <<ArgparseErrorStatus>>
    /\ UNCHANGED <<args, requests, served, thresholds, snapshot, violations, stdout>>
    /\ UNCHANGED drill_vars
    /\ UNCHANGED stub_vars

\* Variant of GuardFail: return 1 without a line on the error stream.
GuardFailQuiet ==
    /\ exit_status' = <<OperationalFailureStatus>>
    /\ gpc' = "exited"
    /\ UNCHANGED stderr

\* except Exception: one line on the error stream, return 1.
GuardFail ==
    /\ stderr' = Append(stderr, Line("failed", 0, ""))
    /\ exit_status' = <<OperationalFailureStatus>>
    /\ gpc' = "exited"

\* Variant of ThresholdsDone: the exception is swallowed and main goes on to the
\* overview with no thresholds.
ThresholdsDoneSwallowed(r) ==
    /\ thresholds' = IF r.raised THEN NoThresholds ELSE r.val
    /\ gpc' = "fetch_snapshot"
    /\ UNCHANGED <<stderr, exit_status>>

\* What follows the thresholds pipeline: its exception ends main, its value is
\* kept and the overview is fetched next.
ThresholdsDone(r) ==
    IF r.raised
    THEN GuardFail /\ UNCHANGED thresholds
    ELSE /\ thresholds' = r.val
         /\ gpc' = "fetch_snapshot"
         /\ UNCHANGED <<stderr, exit_status>>

GuardFetchThresholds ==
    /\ gpc = "fetch_thresholds"
    /\ \E resp \in ThresholdResponses :
          /\ requests' = Append(requests, ThresholdRequest)
          /\ served' = Append(served, resp)
          /\ ThresholdsDone(FetchThresholds(resp))
    /\ UNCHANGED <<args, snapshot, violations, stdout>>
    /\ UNCHANGED drill_vars
    /\ UNCHANGED stub_vars

\* Variant of SnapshotDone: a failed overview fetch is tried again (at most twice).
SnapshotDoneRetry(r) ==
    IF r.raised /\ Len(requests) < 3
    THEN UNCHANGED <<snapshot, gpc, stderr, exit_status>>
    ELSE IF r.raised
    THEN GuardFail /\ UNCHANGED snapshot
    ELSE /\ snapshot' = r.val
         /\ gpc' = "report"
         /\ UNCHANGED <<stderr, exit_status>>

SnapshotDone(r) ==
    IF r.raised
    THEN GuardFail /\ UNCHANGED snapshot
    ELSE /\ snapshot' = r.val
         /\ gpc' = "report"
         /\ UNCHANGED <<stderr, exit_status>>

GuardFetchSnapshot ==
    /\ gpc = "fetch_snapshot"
    /\ \E resp \in SnapshotResponses :
          /\ requests' = Append(requests, OverviewRequest(args))
          /\ served' = Append(served, resp)
          /\ SnapshotDone(FetchSnapshot(resp))
    /\ UNCHANGED <<args, thresholds, violations, stdout>>
    /\ UNCHANGED drill_vars
    /\ UNCHANGED stub_vars

\* Print the snapshot and the thresholds, evaluate, print the verdict, return.
GuardReport ==
    /\ gpc = "report"
    /\ IF evaluate_raises(snapshot, thresholds)
       THEN /\ stdout' = stdout \o SubSeq(ReportLines(<<>>), 1, 4)
            /\ GuardFail
            /\ UNCHANGED violations
       ELSE /\ violations' = evaluate(snapshot, thresholds)
            /\ stdout' = stdout \o ReportLines(violations')
            /\ exit_status' = <<VerdictStatus(violations')>>
            /\ gpc' = "exited"
            /\ UNCHANGED stderr
    /\ UNCHANGED <<args, requests, served, thresholds, snapshot>>
    /\ UNCHANGED drill_vars
    /\ UNCHANGED stub_vars

Init ==
    /\ gpc = "parse_args"
    /\ args \in GuardArgs
    /\ requests = <<>>
    /\ served = <<>>
    /\ thresholds = NoThresholds
    /\ snapshot = NoSnapshot
    /\ violations = <<>>
    /\ stdout = <<>>
    /\ stderr = <<>>
    /\ exit_status = <<>>
    /\ DrillIdle
    /\ StubIdle

Next ==
    \/ GuardParseArgs
    \/ GuardFetchThresholds
    \/ GuardFetchSnapshot
    \/ GuardReport

Spec == Init /\ [][Next]_vars

(***************************************************************************)
(* SpecParse: parse_thresholds and parse_snapshot on one payload whose     *)
(* fields range over every kind of JSON value.                             *)
(***************************************************************************)
AllThresholdPayloads ==
    {ThresholdFields(a, b, c, d) :
        a \in RawValues, b \in RawValues, c \in RawValues, d \in RawValues}

\* The value under "ttft": a dict whose "p99_ms" is any value, or any value
\* that is not a dict.
AllTtft ==
    {<<J("dict", 0), p>> : p \in RawValues}
        \cup {<<t, Missing>> : t \in RawValues \ {J("dict", 0)}}

AllSnapshotPayloads ==
    {SnapshotFields(a, tp[1], tp[2], c, d) :
        a \in RawValues, tp \in AllTtft, c \in RawValues, d \in RawValues}

Envelope(fields) == Response("ok", "dict", J("int", 0), "dict", fields)

InitParse ==
    /\ \/ /\ gpc = "parse_thresholds"
          /\ \E f \in AllThresholdPayloads : served = <<Envelope(f)>>
       \/ /\ gpc = "parse_snapshot"
          /\ \E f \in AllSnapshotPayloads : served = <<Envelope(f)>>
    /\ args = [has_base_url |-> TRUE, platform |-> <<"openai">>,
               time_range |-> <<"30m">>, group_id |-> <<>>]
    /\ requests = <<>>
    /\ thresholds = NoThresholds
    /\ snapshot = NoSnapshot
    /\ violations = <<>>
    /\ stdout = <<>>
    /\ stderr = <<>>
    /\ exit_status = <<>>
    /\ DrillIdle
    /\ StubIdle

ParseThresholds ==
    /\ gpc = "parse_thresholds"
    /\ LET r == parse_thresholds(parse_envelope_data(served[1]).val)
       IN  IF r.raised
           THEN gpc' = "parse_raised" /\ UNCHANGED thresholds
           ELSE gpc' = "parsed_thresholds" /\ thresholds' = r.val
    /\ UNCHANGED <<args, requests, served, snapshot, violations, stdout, stderr,
                   exit_status>>
    /\ UNCHANGED drill_vars
    /\ UNCHANGED stub_vars

ParseSnapshot ==
    /\ gpc = "parse_snapshot"
    /\ LET r == parse_snapshot(parse_envelope_data(served[1]).val)
       IN  IF r.raised
           THEN gpc' = "parse_raised" /\ UNCHANGED snapshot
           ELSE gpc' = "parsed_snapshot" /\ snapshot' = r.val
    /\ UNCHANGED <<args, requests, served, thresholds, violations, stdout, stderr,
                   exit_status>>
    /\ UNCHANGED drill_vars
    /\ UNCHANGED stub_vars

NextParse == ParseThresholds \/ ParseSnapshot

SpecParse == InitParse /\ [][NextParse]_vars

(***************************************************************************)
(* SpecDrill: main() of openai_oauth_gray_drill.py.  The guard is a        *)
(* subprocess: what the drill sees of it is the return code.               *)
(***************************************************************************)
batch_plan ==
    <<[stage |-> "A", ratio |-> "5%"], [stage |-> "B", ratio |-> "20%"],
      [stage |-> "C", ratio |-> "50%"], [stage |-> "D", ratio |-> "100%"]>>

ReturnCodes == 0..MaxReturnCode

\* ok = code == 0
StageOk(code) == code = 0

\* rollback_triggered = rollback_code == 2
RollbackTriggered(code) == code = 2

\* Variant of Conclusion: or instead of and.
ConclusionEither(ap, rb) == ap \/ rb

\* all_pass and rollback_triggered
Conclusion(ap, rb) == ap /\ rb

\* return 0 if all_pass and rollback_triggered else 1
DrillStatus(ap, rb) == IF Conclusion(ap, rb) THEN 0 ELSE 1

\* The stage the next run_guard call is for.
NextStage ==
    IF dpc = "stages" THEN batch_plan[Len(rows) + 1].stage ELSE "rollback"

\* Variant of DrillStartServer: the socket is bound but the serving thread is
\* not started before the stages.
DrillStartServerLazy ==
    /\ dpc = "start"
    /\ server' = "none"
    /\ dpc' \in {"stages", "raised"}
    /\ UNCHANGED <<invocations, inflight, rows, all_pass, rollback, report,
                   drill_exit>>
    /\ UNCHANGED guard_vars
    /\ UNCHANGED stub_vars

\* HTTPServer(("127.0.0.1", 0), _MockHandler) binds and listens, and the thread
\* runs serve_forever; the bind may fail.
DrillStartServer ==
    /\ dpc = "start"
    /\ \/ server' = "serving" /\ dpc' = "stages"
       \/ server' = "none" /\ dpc' = "raised"
    /\ UNCHANGED <<invocations, inflight, rows, all_pass, rollback, report,
                   drill_exit>>
    /\ UNCHANGED guard_vars
    /\ UNCHANGED stub_vars

\* run_guard: subprocess.run starts the guard for the next stage, or raises
\* (the interpreter is not found, the process cannot be created).
DrillStartGuard ==
    /\ dpc \in {"stages", "rollback"}
    /\ inflight = <<>>
    /\ \/ /\ inflight' = <<NextStage>>
          /\ invocations' = Append(invocations, NextStage)
          /\ UNCHANGED dpc
       \/ /\ dpc' = "raised"
          /\ UNCHANGED <<inflight, invocations>>
    /\ UNCHANGED <<server, rows, all_pass, rollback, report, drill_exit>>
    /\ UNCHANGED guard_vars
    /\ UNCHANGED stub_vars

\* Variant of RecordStage: the loop is left at the first stage that fails.
RecordStageBreakOnFail(code) ==
    /\ rows' = Append(rows, [stage |-> batch_plan[Len(rows) + 1].stage,
                             ratio |-> batch_plan[Len(rows) + 1].ratio,
                             code |-> code, ok |-> StageOk(code)])
    /\ all_pass' = (all_pass /\ StageOk(code))
    /\ dpc' = IF Len(rows) + 1 = Len(batch_plan) \/ ~StageOk(code) THEN "rollback"
              ELSE "stages"
    /\ UNCHANGED rollback

\* Variant of RecordStage: a stage that fails is run again.
RecordStageRetryOnFail(code) ==
    IF StageOk(code)
    THEN /\ rows' = Append(rows, [stage |-> batch_plan[Len(rows) + 1].stage,
                                  ratio |-> batch_plan[Len(rows) + 1].ratio,
                                  code |-> code, ok |-> StageOk(code)])
         /\ all_pass' = (all_pass /\ StageOk(code))
         /\ dpc' = IF Len(rows) + 1 = Len(batch_plan) THEN "rollback" ELSE "stages"
         /\ UNCHANGED rollback
    ELSE UNCHANGED <<rows, all_pass, dpc, rollback>>

\* The loop body after run_guard returned code for a ramp stage.
RecordStage(code) ==
    /\ rows' = Append(rows, [stage |-> batch_plan[Len(rows) + 1].stage,
                             ratio |-> batch_plan[Len(rows) + 1].ratio,
                             code |-> code, ok |-> StageOk(code)])
    /\ all_pass' = (all_pass /\ StageOk(code))
    /\ dpc' = IF Len(rows) + 1 = Len(batch_plan) THEN "rollback" ELSE "stages"
    /\ UNCHANGED rollback

\* Variant of RecordRollback: any status other than 0 counts as triggered.
RecordRollbackAnyFailure(code) ==
    /\ rollback' = <<[code |-> code, triggered |-> code # 0]>>
    /\ dpc' = "report"
    /\ UNCHANGED <<rows, all_pass>>

\* The lines after run_guard returned code for the rollback stage.
RecordRollback(code) ==
    /\ rollback' = <<[code |-> code, triggered |-> RollbackTriggered(code)]>>
    /\ dpc' = "report"
    /\ UNCHANGED <<rows, all_pass>>

\* subprocess.run returns the guard's return code, or the wait is interrupted.
DrillGuardReturns ==
    /\ inflight # <<>>
    /\ inflight' = <<>>
    /\ \/ \E code \in ReturnCodes :
             IF dpc = "stages" THEN RecordStage(code) ELSE RecordRollback(code)
       \/ /\ dpc' = "raised"
          /\ UNCHANGED <<rows, all_pass, rollback>>
    /\ UNCHANGED <<server, invocations, report, drill_exit>>
    /\ UNCHANGED guard_vars
    /\ UNCHANGED stub_vars

\* The conclusion lines, mkdir and write_text; the write may raise.
DrillWriteReport ==
    /\ dpc = "report"
    /\ \/ /\ report' = <<[rows |-> rows, rollback |-> rollback[1],
                          all_pass |-> all_pass,
                          conclusion |-> Conclusion(all_pass, rollback[1].triggered)]>>
          /\ dpc' = "shutdown"
       \/ /\ dpc' = "raised"
          /\ UNCHANGED report
    /\ UNCHANGED <<server, invocations, inflight, rows, all_pass, rollback,
                   drill_exit>>
    /\ UNCHANGED guard_vars
    /\ UNCHANGED stub_vars

\* server.shutdown(); server.server_close(); print; return.
DrillShutdown ==
    /\ dpc = "shutdown"
    /\ server' = "closed"
    /\ drill_exit' = <<DrillStatus(all_pass, rollback[1].triggered)>>
    /\ dpc' = "done"
    /\ UNCHANGED <<invocations, inflight, rows, all_pass, rollback, report>>
    /\ UNCHANGED guard_vars
    /\ UNCHANGED stub_vars

InitDrill ==
    /\ GuardIdle
    /\ dpc = "start"
    /\ server = "none"
    /\ invocations = <<>>
    /\ inflight = <<>>
    /\ rows = <<>>
    /\ all_pass = TRUE
    /\ rollback = <<>>
    /\ report = <<>>
    /\ drill_exit = <<>>
    /\ StubIdle

NextDrill ==
    \/ DrillStartServer
    \/ DrillStartGuard
    \/ DrillGuardReturns
    \/ DrillWriteReport
    \/ DrillShutdown

SpecDrill == InitDrill /\ [][NextDrill]_vars

\* main is sequential code: while a step of it can be taken, one is taken.
SpecDrillFair == SpecDrill /\ WF_vars(NextDrill)

(***************************************************************************)
(* SpecHarness: the drill with its guard subprocesses and its stub host.   *)
(* Each run_guard starts a Guard Runner process whose two requests are     *)
(* answered by do_GET; other clients may send GETs to the stub host while  *)
(* it serves.                                                              *)
(***************************************************************************)

\* What a client of the stub host receives: do_GET's answer while the host
\* serves, a refused connection otherwise.
StubAnswer(req) ==
    IF server = "serving" THEN do_GET(req, THRESHOLDS, STAGE_SNAPSHOTS)
    ELSE Response("url_error", "none", Missing, "missing", <<>>)

\* The handler ran for req (only when the host serves).
StubHandled(req) ==
    IF server = "serving"
    THEN /\ THRESHOLDS' = TablesAfterGet(req, THRESHOLDS, STAGE_SNAPSHOTS)[1]
         /\ STAGE_SNAPSHOTS' = TablesAfterGet(req, THRESHOLDS, STAGE_SNAPSHOTS)[2]
    ELSE UNCHANGED <<THRESHOLDS, STAGE_SNAPSHOTS>>

\* The command line run_guard builds for a stage.
run_guard_args(stage) ==
    [has_base_url |-> TRUE, platform |-> <<"openai">>, time_range |-> <<"30m">>,
     group_id |-> <<stage>>]

\* run_guard: subprocess.run starts a Guard Runner for the next stage, or raises.
HarnessStartGuard ==
    /\ dpc \in {"stages", "rollback"}
    /\ inflight = <<>>
    /\ \/ /\ inflight' = <<NextStage>>
          /\ invocations' = Append(invocations, NextStage)
          /\ gpc' = "parse_args"
          /\ args' = run_guard_args(NextStage)
          /\ requests' = <<>>
          /\ served' = <<>>
          /\ thresholds' = NoThresholds
          /\ snapshot' = NoSnapshot
          /\ violations' = <<>>
          /\ stdout' = <<>>
          /\ stderr' = <<>>
          /\ exit_status' = <<>>
          /\ UNCHANGED dpc
       \/ /\ dpc' = "raised"
          /\ UNCHANGED <<inflight, invocations>>
          /\ UNCHANGED guard_vars
    /\ UNCHANGED <<server, rows, all_pass, rollback, report, drill_exit>>
    /\ UNCHANGED stub_vars

\* The guard's threshold fetch, answered by the stub host.
HarnessFetchThresholds ==
    /\ gpc = "fetch_thresholds"
    /\ requests' = Append(requests, ThresholdRequest)
    /\ served' = Append(served, StubAnswer(ThresholdRequest))
    /\ ThresholdsDone(FetchThresholds(StubAnswer(ThresholdRequest)))
    /\ StubHandled(ThresholdRequest)
    /\ UNCHANGED <<args, snapshot, violations, stdout, probe>>
    /\ UNCHANGED drill_vars

\* The guard's overview fetch, answered by the stub host.
HarnessFetchSnapshot ==
    /\ gpc = "fetch_snapshot"
    /\ requests' = Append(requests, OverviewRequest(args))
    /\ served' = Append(served, StubAnswer(OverviewRequest(args)))
    /\ SnapshotDone(FetchSnapshot(StubAnswer(OverviewRequest(args))))
    /\ StubHandled(OverviewRequest(args))
    /\ UNCHANGED <<args, thresholds, violations, stdout, probe>>
    /\ UNCHANGED drill_vars

\* subprocess.run returns the exit status of the Guard Runner that has exited,
\* or the wait is interrupted.
HarnessGuardReturns ==
    /\ inflight # <<>>
    /\ inflight' = <<>>
    /\ \/ /\ gpc = "exited"
          /\ IF dpc = "stages" THEN RecordStage(exit_status[1])
             ELSE RecordRollback(exit_status[1])
       \/ /\ dpc' = "raised"
          /\ UNCHANGED <<rows, all_pass, rollback>>
    /\ UNCHANGED <<server, invocations, report, drill_exit>>
    /\ UNCHANGED guard_vars
    /\ UNCHANGED stub_vars

\* The GETs another client may send: either path with any group_id, or a path
\* the stub host does not know.
ProbeRequests ==
    {[path |-> path, query |-> q] :
        path \in {ThresholdsPath, OverviewPath},
        q \in {<<>>, <<Param("group_id", <<>>)>>}
                \cup {<<Param("group_id", <<g>>)>> :
                        g \in {"A", "B", "C", "D", "rollback", "Z"}}}
        \cup {[path |-> "/", query |-> <<>>]}

\* do_GET for a GET of another client.
StubProbe ==
    /\ server = "serving"
    /\ \E req \in ProbeRequests :
          /\ probe' = <<[request |-> req, answer |-> StubAnswer(req)]>>
          /\ StubHandled(req)
    /\ UNCHANGED guard_vars
    /\ UNCHANGED drill_vars

InitHarness ==
    /\ GuardIdle
    /\ dpc = "start"
    /\ server = "none"
    /\ invocations = <<>>
    /\ inflight = <<>>
    /\ rows = <<>>
    /\ all_pass = TRUE
    /\ rollback = <<>>
    /\ report = <<>>
    /\ drill_exit = <<>>
    /\ StubIdle

NextHarness ==
    \/ DrillStartServer
    \/ HarnessStartGuard
    \/ GuardParseArgs
    \/ HarnessFetchThresholds
    \/ HarnessFetchSnapshot
    \/ GuardReport
    \/ HarnessGuardReturns
    \/ DrillWriteReport
    \/ DrillShutdown
    \/ StubProbe

SpecHarness == InitHarness /\ [][NextHarness]_vars

(***************************************************************************)
(* SpecDrillStatuses: the drill with the Guard Runner as a process that    *)
(* ends with some status, which subprocess.run then hands to main.         *)
(***************************************************************************)

\* The guard process started by run_guard ends: main returns, or the process
\* is ended by SystemExit, with a status.
GuardProcessEnds ==
    /\ inflight # <<>>
    /\ gpc = "parse_args"
    /\ \E code \in ReturnCodes : exit_status' = <<code>>
    /\ gpc' = "exited"
    /\ UNCHANGED <<args, requests, served, thresholds, snapshot, violations,
                   stdout, stderr>>
    /\ UNCHANGED drill_vars
    /\ UNCHANGED stub_vars

NextDrillStatuses ==
    \/ DrillStartServer
    \/ HarnessStartGuard
    \/ GuardProcessEnds
    \/ HarnessGuardReturns
    \/ DrillWriteReport
    \/ DrillShutdown

SpecDrillStatuses == InitHarness /\ [][NextDrillStatuses]_vars

(***************************************************************************)
(* SpecAnyOrder: the five run_guard calls of main made in any order        *)
(* against the stub host, each result recorded as main records it.         *)
(***************************************************************************)

Stages == {batch_plan[i].stage : i \in 1..Len(batch_plan)} \cup {"rollback"}

Invoked == {invocations[i] : i \in 1..Len(invocations)}

RatioOf(stage) ==
    batch_plan[CHOOSE i \in 1..Len(batch_plan) : batch_plan[i].stage = stage].ratio

\* run_guard for a stage that has not been run yet.
OrderStartGuard ==
    /\ dpc = "stages"
    /\ inflight = <<>>
    /\ \E stage \in Stages \ Invoked :
          /\ inflight' = <<stage>>
          /\ invocations' = Append(invocations, stage)
          /\ args' = run_guard_args(stage)
    /\ gpc' = "parse_args"
    /\ requests' = <<>>
    /\ served' = <<>>
    /\ thresholds' = NoThresholds
    /\ snapshot' = NoSnapshot
    /\ violations' = <<>>
    /\ stdout' = <<>>
    /\ stderr' = <<>>
    /\ exit_status' = <<>>
    /\ UNCHANGED <<dpc, server, rows, all_pass, rollback, report, drill_exit>>
    /\ UNCHANGED stub_vars

\* run_guard returns the status of the guard that has exited; main records it
\* as a ramp row or as the rollback result, by the stage it was for.
OrderGuardReturns ==
    /\ inflight # <<>>
    /\ gpc = "exited"
    /\ inflight' = <<>>
    /\ IF inflight[1] = "rollback"
       THEN /\ rollback' = <<[code |-> exit_status[1],
                              triggered |-> RollbackTriggered(exit_status[1])]>>
            /\ UNCHANGED <<rows, all_pass>>
       ELSE /\ rows' = Append(rows, [stage |-> inflight[1],
                                     ratio |-> RatioOf(inflight[1]),
                                     code |-> exit_status[1],
                                     ok |-> StageOk(exit_status[1])])
            /\ all_pass' = (all_pass /\ StageOk(exit_status[1]))
            /\ UNCHANGED rollback
    /\ dpc' = IF Invoked = Stages THEN "report" ELSE "stages"
    /\ UNCHANGED <<server, invocations, report, drill_exit>>
    /\ UNCHANGED guard_vars
    /\ UNCHANGED stub_vars

NextAnyOrder ==
    \/ DrillStartServer
    \/ OrderStartGuard
    \/ GuardParseArgs
    \/ HarnessFetchThresholds
    \/ HarnessFetchSnapshot
    \/ GuardReport
    \/ OrderGuardReturns
    \/ DrillWriteReport
    \/ DrillShutdown
    \/ StubProbe

SpecAnyOrder == InitHarness /\ [][NextAnyOrder]_vars

(***************************************************************************)
(* SpecFilters: the drill, and Guard Runners started on a command line of  *)
(* their own against the address the stub host listens on.                 *)
(***************************************************************************)

\* main of the guard entered with any command line, while no guard of the
\* drill is running.
GuardByHand ==
    /\ server = "serving"
    /\ inflight = <<>>
    /\ gpc \in {"idle", "exited"}
    /\ args' \in GuardArgs
    /\ gpc' = "parse_args"
    /\ requests' = <<>>
    /\ served' = <<>>
    /\ thresholds' = NoThresholds
    /\ snapshot' = NoSnapshot
    /\ violations' = <<>>
    /\ stdout' = <<>>
    /\ stderr' = <<>>
    /\ exit_status' = <<>>
    /\ UNCHANGED drill_vars
    /\ UNCHANGED stub_vars

NextFilters ==
    \/ DrillStartServer
    \/ HarnessStartGuard
    \/ GuardByHand
    \/ GuardParseArgs
    \/ HarnessFetchThresholds
    \/ HarnessFetchSnapshot
    \/ GuardReport
    \/ HarnessGuardReturns
    \/ DrillWriteReport
    \/ DrillShutdown

SpecFilters == InitHarness /\ [][NextFilters]_vars

(***************************************************************************)
(* Properties.                                                             *)
(***************************************************************************)

Exited == gpc = "exited"

\* The causes of a failed fetch that can be read off the response itself.
ListedFailure(resp) ==
    \/ resp.transport # "ok"
    \/ resp.body # "dict"
    \/ ~PyEqZero(resp.code)
    \/ resp.data # "dict"

ThresholdFetchFailed ==
    Len(served) >= 1
        /\ (ListedFailure(served[1]) \/ FetchThresholds(served[1]).raised)

SnapshotFetchFailed ==
    Len(served) >= 2
        /\ (ListedFailure(served[2]) \/ FetchSnapshot(served[2]).raised)

BothFetchesSucceeded ==
    Len(served) = 2 /\ ~ThresholdFetchFailed /\ ~SnapshotFetchFailed

\* evaluate has run: both fetches were made and main did not end in its except branch.
Evaluated ==
    Exited /\ Len(served) = 2 /\ exit_status # <<OperationalFailureStatus>>

MetricOrder == <<"sla", "ttft_p99_ms", "request_error_rate", "upstream_error_rate">>

Metrics == {MetricOrder[i] : i \in 1..Len(MetricOrder)}

LimitOf(t, m) ==
    CASE m = "sla" -> t.sla_percent_min
      [] m = "ttft_p99_ms" -> t.ttft_p99_ms_max
      [] m = "request_error_rate" -> t.request_error_rate_percent_max
      [] m = "upstream_error_rate" -> t.upstream_error_rate_percent_max

ActualOf(sn, m) ==
    CASE m = "sla" -> sn.sla
      [] m = "ttft_p99_ms" -> sn.ttft_p99_ms
      [] m = "request_error_rate" -> sn.request_error_rate_percent
      [] m = "upstream_error_rate" -> sn.upstream_error_rate_percent

HasViolation(vs, m) == \E i \in 1..Len(vs) : vs[i].metric = m

\* Both sides are numbers and the observed one is on the wrong side of the limit.
Breaching(m) ==
    LET actual == ActualOf(snapshot, m)
        limit == LimitOf(thresholds, m)
    IN  /\ actual.k = "float"
        /\ limit.k = "float"
        /\ IF m = "sla" THEN actual.v < limit.v ELSE actual.v > limit.v

\* C1: a Guard Runner whose arguments parsed exits with 0, 1 or 2; 1 exactly
\* when the threshold fetch or the snapshot fetch failed (every transport error,
\* non-success code and non-keyed payload is such a failure), 2 exactly when
\* both succeeded and evaluate returned a violation, 0 exactly when both
\* succeeded and evaluate returned none.
C1_ExitStatusContract ==
    (Exited /\ args.has_base_url) =>
        /\ exit_status \in {<<0>>, <<1>>, <<2>>}
        /\ (exit_status = <<1>>) <=> (ThresholdFetchFailed \/ SnapshotFetchFailed)
        /\ (exit_status = <<2>>) <=> (BothFetchesSucceeded /\ violations # <<>>)
        /\ (exit_status = <<0>>) <=> (BothFetchesSucceeded /\ violations = <<>>)
        /\ BothFetchesSucceeded => violations = evaluate(snapshot, thresholds)
        /\ \A i \in 1..Len(served) : ListedFailure(served[i]) => exit_status = <<1>>

\* The thresholds arrived, the overview fetch failed, and the process ended with 1.
C1_Witness ==
    /\ Exited
    /\ args.has_base_url
    /\ Len(served) = 2
    /\ ~ThresholdFetchFailed
    /\ served[2].transport = "timeout"
    /\ exit_status = <<1>>

\* C2: a Guard Runner process that ends with status 2 has completed an
\* evaluation (both fetches succeeded) with a non-empty violation list, and a
\* command line rejected for a missing base address ends with status 1.
C2_StatusTwoIsBreachOnly ==
    /\ (Exited /\ exit_status = <<2>>) => (BothFetchesSucceeded /\ violations # <<>>)
    /\ (Exited /\ ~args.has_base_url) => exit_status = <<1>>

\* C3: the threshold request is the first request and the overview request, if
\* any, the second; once the threshold fetch has failed no overview request is
\* ever issued and the process has ended with status 1.
C3_ThresholdsFirstAndShortCircuit ==
    /\ Len(requests) <= 2
    /\ Len(requests) >= 1 => requests[1] = ThresholdRequest
    /\ Len(requests) = 2 => requests[2] = OverviewRequest(args)
    /\ ThresholdFetchFailed =>
          /\ Len(requests) = 1
          /\ Len(served) = 1
          /\ Exited
          /\ exit_status = <<1>>

\* The threshold envelope carried code 1: one request, status 1.
C3_Witness ==
    /\ Exited
    /\ Len(served) = 1
    /\ served[1].transport = "ok"
    /\ served[1].body = "dict"
    /\ served[1].code = J("int", 1)
    /\ served[1].data = "dict"
    /\ Len(requests) = 1
    /\ exit_status = <<1>>

\* C4: a metric whose limit or whose observed value is unknown has no entry in
\* evaluate's list, whatever the other side holds; with all four unknown on one
\* side the list is empty.
C4_UnknownNeverBreaches ==
    Evaluated =>
        /\ \A m \in Metrics :
              (LimitOf(thresholds, m) = NoneV \/ ActualOf(snapshot, m) = NoneV)
                  => ~HasViolation(violations, m)
        /\ (\A m \in Metrics : LimitOf(thresholds, m) = NoneV) => violations = <<>>
        /\ (\A m \in Metrics : ActualOf(snapshot, m) = NoneV) => violations = <<>>

\* The latency limit is unknown while the observed latency is 1, and another
\* metric breaches.
C4_Witness ==
    /\ Evaluated
    /\ thresholds.ttft_p99_ms_max = NoneV
    /\ snapshot.ttft_p99_ms = Float(1)
    /\ thresholds.sla_percent_min = Float(1)
    /\ snapshot.sla = NoneV
    /\ HasViolation(violations, "upstream_error_rate")

\* C5: with both sides present, availability breaches exactly when the observed
\* value is below the minimum and each of the other three exactly when it is
\* above the maximum; an observed value equal to its limit is no violation.
C5_StrictInequalityOnly ==
    Evaluated =>
        \A m \in Metrics :
            LET actual == ActualOf(snapshot, m)
                limit == LimitOf(thresholds, m)
            IN  (actual # NoneV /\ limit # NoneV) =>
                    /\ (actual.k = "float" /\ limit.k = "float") =>
                          /\ HasViolation(violations, m)
                                <=> (IF m = "sla" THEN actual.v < limit.v
                                     ELSE actual.v > limit.v)
                          /\ actual.v = limit.v => ~HasViolation(violations, m)
                    /\ (actual.k = "nan" \/ limit.k = "nan")
                          => ~HasViolation(violations, m)

\* Every observed value equals its limit and the list is empty.
C5_Witness ==
    /\ Evaluated
    /\ \A m \in Metrics :
          ActualOf(snapshot, m) = Float(1) /\ LimitOf(thresholds, m) = Float(1)
    /\ violations = <<>>
    /\ exit_status = <<0>>

\* C6: evaluate's list holds one entry for each metric that is present on both
\* sides and breaching, nothing else, in the order availability, p99 latency,
\* request error rate, upstream error rate.
C6_OrderedSublistOfBreaches ==
    Evaluated =>
        /\ [i \in 1..Len(violations) |-> violations[i].metric]
              = SelectSeq(MetricOrder, Breaching)
        /\ Len(violations) <= 4
        /\ \A i \in 1..Len(violations) :
              /\ violations[i].actual = ActualOf(snapshot, violations[i].metric)
              /\ violations[i].threshold = LimitOf(thresholds, violations[i].metric)

\* Availability and upstream error rate breach, the two metrics between them do not.
C6_Witness ==
    /\ Evaluated
    /\ Len(violations) = 2
    /\ violations[1].metric = "sla"
    /\ violations[2].metric = "upstream_error_rate"
    /\ snapshot.ttft_p99_ms = Float(0)
    /\ thresholds.ttft_p99_ms_max = Float(0)

\* A value that is no number: an absent key, null, a boolean, a string that is
\* not a numeral, a list, a nested object.
NonNumeric(v) == v.k \in {"missing", "null", "bool", "str", "list", "dict"}

\* C7: each field of a payload is resolved on its own: an absent key, a null or
\* a non-numeric value (a boolean, a non-numeric string, a list, a nested
\* object, a latency container that is not a keyed structure) gives unknown for
\* that field, never a number, and the parse of the payload does not fail for it.
C7_NonNumericIsUnknown ==
    LET f == served[1].fields
    IN  /\ gpc = "parsed_thresholds" =>
              /\ NonNumeric(f.sla_percent_min) => thresholds.sla_percent_min = NoneV
              /\ NonNumeric(f.ttft_p99_ms_max) => thresholds.ttft_p99_ms_max = NoneV
              /\ NonNumeric(f.request_error_rate_percent_max)
                    => thresholds.request_error_rate_percent_max = NoneV
              /\ NonNumeric(f.upstream_error_rate_percent_max)
                    => thresholds.upstream_error_rate_percent_max = NoneV
        /\ gpc = "parsed_snapshot" =>
              /\ NonNumeric(f.sla) => snapshot.sla = NoneV
              /\ (f.ttft.k # "dict" \/ NonNumeric(f.p99_ms))
                    => snapshot.ttft_p99_ms = NoneV
              /\ NonNumeric(f.error_rate) => snapshot.request_error_rate_percent = NoneV
              /\ NonNumeric(f.upstream_error_rate)
                    => snapshot.upstream_error_rate_percent = NoneV
        /\ gpc = "parse_raised" =>
              \E v \in {f[key] : key \in DOMAIN f} : ~NonNumeric(v)

ExpectedPattern ==
    /\ Len(rows) = Len(batch_plan)
    /\ \A i \in 1..Len(rows) : rows[i].code = 0
    /\ rollback # <<>>
    /\ rollback[1].code = 2

\* C9: whatever the five guard invocations returned, the drill's conclusion is
\* success, and the drill returns 0, exactly when all four ramp stages returned
\* 0 and the rollback stage returned 2; otherwise the conclusion is failure and
\* the drill returns 1.
C9_VerdictIffExpectedPattern ==
    /\ report # <<>> => (report[1].conclusion <=> ExpectedPattern)
    /\ dpc = "done" =>
          /\ Len(invocations) = 5
          /\ drill_exit = IF ExpectedPattern THEN <<0>> ELSE <<1>>
    /\ drill_exit = <<0>> => ExpectedPattern

\* A ramp stage returned 1, the rollback stage returned 2: the drill returns 1.
C9_Witness ==
    /\ dpc = "done"
    /\ rows[1].code = 0
    /\ rows[2].code = 1
    /\ rows[3].code = 0
    /\ rows[4].code = 0
    /\ rollback[1].code = 2
    /\ ~report[1].conclusion
    /\ drill_exit = <<1>>

\* C10: once main of the drill is left, by return or by exception, the stub
\* host is not serving.
C10_ServerDownWhenLeft ==
    dpc \in {"done", "raised"} => server # "serving"

\* C11: whatever status each guard invocation returns, the drill runs all four
\* ramp stages, then the rollback check, writes the report and returns a
\* verdict: a returned status is recorded and the drill goes on (a failing ramp
\* stage does not skip the stages after it nor the rollback check), and every
\* execution reaches the end of main unless an exception leaves it.
C11_AlwaysReachesDone ==
    /\ <>(dpc \in {"done", "raised"})
    /\ [](dpc = "done" =>
            /\ Len(rows) = 4
            /\ [i \in 1..4 |-> rows[i].stage] = <<"A", "B", "C", "D">>
            /\ \A i \in 1..4 : rows[i].ok <=> rows[i].code = 0
            /\ rollback # <<>>
            /\ invocations = <<"A", "B", "C", "D", "rollback">>
            /\ report # <<>>
            /\ drill_exit \in {<<0>>, <<1>>})
    /\ [][Len(rows') > Len(rows) =>
            dpc' = IF Len(rows') = 4 THEN "rollback" ELSE "stages"]_vars
    /\ [][rollback' # rollback => dpc' = "report"]_vars

\* The first ramp stage returned 2 and the drill still ran everything.
C11_Witness ==
    /\ dpc = "done"
    /\ rows[1].code = 2
    /\ ~rows[1].ok
    /\ Len(rows) = 4
    /\ rollback[1].code = 0
    /\ report # <<>>
    /\ drill_exit = <<1>>

\* C12: the drill run against its own stub host gets status 0 from the guard
\* for each of the ramp stages A, B, C, D and status 2 for the rollback stage,
\* and its verdict is success (it returns 0).
C12_CannedDrillSucceeds ==
    /\ \A i \in 1..Len(rows) : rows[i].code = 0 /\ rows[i].ok
    /\ rollback # <<>> => rollback[1].code = 2 /\ rollback[1].triggered
    /\ report # <<>> => report[1].conclusion
    /\ dpc = "done" =>
          /\ [i \in 1..Len(rows) |-> rows[i].stage] = <<"A", "B", "C", "D">>
          /\ drill_exit = <<0>>

C12_Witness ==
    /\ dpc = "done"
    /\ Len(rows) = 4
    /\ rollback[1].code = 2
    /\ drill_exit = <<0>>
    /\ server = "closed"

DrillThresholds == GuardThresholds(Float(9950), Float(90000), Float(200), Float(200))

RampSnapshot == GuardSnapshot(Float(9978), Float(78000), Float(120), Float(105))

RollbackSnapshot == GuardSnapshot(Float(9710), Float(155000), Float(630), Float(560))

\* C13: with thresholds 99.5 / 900 / 2.0 / 2.0, a guard that fetched the ramp
\* snapshot 99.78 / 780 / 1.20 / 1.05 has no violation and exits 0; one that
\* fetched the rollback snapshot 97.10 / 1550 / 6.30 / 5.60 has four
\* violations, one per metric in the order availability, latency, request
\* error rate, upstream error rate, and exits 2.
C13_CannedVerdicts ==
    /\ (Exited /\ thresholds = DrillThresholds /\ snapshot = RampSnapshot) =>
          /\ violations = <<>>
          /\ exit_status = <<0>>
    /\ (Exited /\ thresholds = DrillThresholds /\ snapshot = RollbackSnapshot) =>
          /\ [i \in 1..Len(violations) |-> violations[i].metric] = MetricOrder
          /\ exit_status = <<2>>

C13_Witness ==
    /\ Exited
    /\ thresholds = DrillThresholds
    /\ snapshot = RollbackSnapshot
    /\ Len(violations) = 4
    /\ exit_status = <<2>>

\* C14: a Guard Runner that ends with status 2 has printed the snapshot, the
\* thresholds and then one numbered line per violation of evaluate's list, in
\* its order; a run that ends with 0 or 1 has printed no violation line.
C14_BreachOutput ==
    /\ (Exited /\ exit_status = <<2>>) =>
          /\ Len(stdout) = Len(violations) + 6
          /\ [i \in 1..4 |-> stdout[i].t] =
                <<"snapshot_header", "snapshot_json", "thresholds_header",
                  "thresholds_json">>
          /\ violations # <<>>
          /\ \A i \in 1..Len(violations) :
                stdout[5 + i] = Line("violation", i, violations[i].metric)
    /\ (Exited /\ exit_status \in {<<0>>, <<1>>}) =>
          \A i \in 1..Len(stdout) : stdout[i].t # "violation"

VerdictTags == {"pass", "violations_header", "violation", "advice"}

\* C15: when a fetch of the Guard Runner fails (transport error, timeout, HTTP
\* error, body that is not JSON, non-success code, malformed payload), on the
\* thresholds or on the overview, the run ends with status 1, one diagnostic
\* line on the error stream, and no pass or breach verdict on standard output.
C15_OperationalFailure ==
    (args.has_base_url /\ (ThresholdFetchFailed \/ SnapshotFetchFailed)) =>
        /\ Exited
        /\ exit_status = <<1>>
        /\ stderr = <<Line("failed", 0, "")>>
        /\ \A i \in 1..Len(stdout) : stdout[i].t \notin VerdictTags

\* The overview answered with an HTTP error status.
C15_Witness ==
    /\ Exited
    /\ Len(served) = 2
    /\ served[2].transport = "http_error"
    /\ exit_status = <<1>>
    /\ stderr # <<>>
    /\ stdout = <<>>

StagePlan == <<"A", "B", "C", "D", "rollback">>

\* C16: the drill invokes the guard for A, B, C, D, rollback in that order,
\* one at a time (an invocation starts only when none is running), five times
\* in an execution that reaches the end of main; no stage is invoked twice,
\* whatever status came back.
C16_FiveSequentialInvocations ==
    /\ [](/\ Len(invocations) <= Len(StagePlan)
          /\ invocations = SubSeq(StagePlan, 1, Len(invocations))
          /\ Len(inflight) <= 1
          /\ inflight # <<>> => inflight[1] = invocations[Len(invocations)]
          /\ dpc # "raised" =>
                Len(rows) + Len(rollback) = Len(invocations) - Len(inflight)
          /\ dpc = "done" => invocations = StagePlan /\ inflight = <<>>)
    /\ [][invocations' # invocations =>
            /\ inflight = <<>>
            /\ invocations' = Append(invocations, StagePlan[Len(invocations) + 1])]_vars

\* Unexpected statuses came back twice and every stage was still run once.
C16_Witness ==
    /\ dpc = "done"
    /\ invocations = StagePlan
    /\ rows[2].code = 2
    /\ rows[4].code = 1
    /\ rollback[1].code = 1

\* The requests the stub host has answered, with its answers.
Exchanges ==
    {probe[i] : i \in 1..Len(probe)}
        \cup {[request |-> requests[i], answer |-> served[i]] : i \in 1..Len(served)}

GroupIdsOf(req) ==
    {req.query[i].value : i \in {j \in 1..Len(req.query) : req.query[j].key = "group_id"}}

ExpectedStage(req) ==
    IF \E g \in GroupIdsOf(req) : g \in DOMAIN CannedSnapshots
    THEN CHOOSE g \in GroupIdsOf(req) : g \in DOMAIN CannedSnapshots
    ELSE <<"A">>

\* C17: the stub host answers a read of the thresholds with the canned
\* thresholds whatever the query, and a read of the overview with the canned
\* snapshot of the group_id of the query, or with that of stage A when there is
\* no group_id or it is not a key of the table; both answers carry code 0.
C17_StubAnswers ==
    \A x \in Exchanges :
        /\ x.request.path = ThresholdsPath =>
              x.answer = Response("ok", "dict", J("int", 0), "dict",
                            ThresholdFields(J("int", 9950), J("int", 90000),
                                            J("int", 200), J("int", 200)))
        /\ x.request.path = OverviewPath =>
              LET want == CannedSnapshots[ExpectedStage(x.request)]
              IN  x.answer = Response("ok", "dict", J("int", 0), "dict",
                                SnapshotFields(J("int", want.sla), J("dict", 0),
                                               J("int", want.ttft),
                                               J("int", want.error_rate),
                                               J("int", want.upstream_error_rate)))

\* An overview read for a stage that is not in the table got stage A's snapshot.
C17_Witness ==
    /\ probe # <<>>
    /\ probe[1].request.path = OverviewPath
    /\ probe[1].request.query = <<Param("group_id", <<"Z">>)>>
    /\ probe[1].answer.fields.p99_ms = J("int", 78000)

RequestsTo(path) == {i \in 1..Len(requests) : requests[i].path = path}

\* C18: a Guard Runner makes at most one request for the thresholds and at
\* most one for the overview; a request that failed is the last one made.
C18_NoRetry ==
    /\ Len(requests) <= 2
    /\ Cardinality(RequestsTo(ThresholdRequest.path)) <= 1
    /\ Cardinality(RequestsTo(OverviewRequest(args).path)) <= 1
    /\ Len(served) = Len(requests)
    /\ \A i \in 1..Len(served) :
          (ListedFailure(served[i]) \/ served[i].transport \in TransportFailures) =>
              i = Len(requests) /\ Exited

\* The request for the thresholds timed out and no other request followed.
C18_Witness ==
    /\ Exited
    /\ Len(requests) = 1
    /\ served[1].transport = "timeout"
    /\ exit_status = <<1>>

\* C19: the stub host's thresholds and snapshot table keep their initial
\* values through the whole drill, whatever requests are handled.
C19_TablesReadOnly ==
    /\ THRESHOLDS = CannedThresholds
    /\ STAGE_SNAPSHOTS = CannedSnapshots

\* The drill is over, the stub has answered guards and another client.
C19_Witness ==
    /\ dpc = "done"
    /\ Len(rows) = 4
    /\ probe # <<>>
    /\ probe[1].request.path = OverviewPath
    /\ STAGE_SNAPSHOTS = CannedSnapshots
    /\ THRESHOLDS = CannedThresholds

RowFor(i, code) ==
    [stage |-> batch_plan[i].stage, ratio |-> batch_plan[i].ratio,
     code |-> code, ok |-> (code = 0)]

\* C22: the report has one row per ramp stage, in the order A, B, C, D, with
\* the status the guard returned and a pass flag true exactly for status 0;
\* its rollback part has the status the rollback guard returned and a
\* triggered flag true exactly for status 2; a row that was appended is never
\* changed afterwards.
C22_ReportIsVerbatim ==
    /\ [](/\ Len(rows) <= Len(batch_plan)
          /\ \A i \in 1..Len(rows) : rows[i] = RowFor(i, rows[i].code)
          /\ (inflight = <<>> /\ rows # <<>> /\ rollback = <<>>
                /\ dpc \in {"stages", "rollback"}) =>
                rows[Len(rows)].code = exit_status[1]
          /\ rollback # <<>> =>
                /\ rollback[1].code = exit_status[1]
                /\ rollback[1].triggered <=> rollback[1].code = 2
          /\ report # <<>> =>
                /\ report[1].rows = rows
                /\ Len(report[1].rows) = Len(batch_plan)
                /\ report[1].rollback = rollback[1])
    /\ [][Len(rows') > Len(rows) =>
            rows' = Append(rows, RowFor(Len(rows) + 1, exit_status[1]))]_vars
    /\ [][Len(rows') >= Len(rows) /\ SubSeq(rows', 1, Len(rows)) = rows]_vars
    /\ [][rollback # <<>> => rollback' = rollback]_vars
    /\ [][report # <<>> => report' = report]_vars

\* Ramp stages returned 1, 0 and 2, the rollback guard returned 1: all of it
\* is in the report.
C22_Witness ==
    /\ dpc = "done"
    /\ report # <<>>
    /\ report[1].rows[1].code = 1
    /\ ~report[1].rows[1].ok
    /\ report[1].rows[2].code = 0
    /\ report[1].rows[3].code = 2
    /\ report[1].rollback.code = 1
    /\ ~report[1].rollback.triggered

\* C24: while a guard invocation is running the stub host is serving: it
\* serves before the first invocation starts, it is closed only after the
\* rollback invocation has returned, and no invocation starts once it is
\* closed.
C24_ServingWhileGuardsRun ==
    /\ [](/\ inflight # <<>> => server = "serving"
          /\ invocations # <<>> => server # "none"
          /\ server = "closed" =>
                /\ invocations = StagePlan
                /\ inflight = <<>>
                /\ rollback # <<>>
          /\ dpc = "done" => server = "closed")
    /\ [][invocations' # invocations => server = "serving" /\ server' = "serving"]_vars
    /\ [][server = "closed" => invocations' = invocations /\ server' = "closed"]_vars

\* The rollback invocation is running and the stub host serves.
C24_Witness ==
    /\ inflight = <<"rollback">>
    /\ Len(invocations) = 5
    /\ server = "serving"
    /\ Len(rows) = 4

StatusOfStage(stage) == IF stage = "rollback" THEN 2 ELSE 0

\* C21: in whatever order the five stages are run against the stub host, and
\* whatever ran before, the guard's status for a stage is the one that belongs
\* to the stage (0 for A, B, C, D, 2 for rollback), and the verdict is success.
C21_StagesIndependent ==
    /\ (inflight # <<>> /\ Exited) => exit_status = <<StatusOfStage(inflight[1])>>
    /\ \A i \in 1..Len(rows) : rows[i].code = StatusOfStage(rows[i].stage)
    /\ rollback # <<>> => rollback[1].code = StatusOfStage("rollback")
    /\ report # <<>> => report[1].conclusion
    /\ dpc = "done" => Invoked = Stages /\ drill_exit = <<0>>

\* The stages were run in the reverse order.
C21_Witness ==
    /\ dpc = "done"
    /\ invocations = <<"rollback", "D", "C", "B", "A">>
    /\ [i \in 1..Len(rows) |-> rows[i].code] = <<0, 0, 0, 0>>
    /\ rollback[1].code = 2
    /\ drill_exit = <<0>>

ValuesOf(req, key) ==
    {req.query[i].value : i \in {j \in 1..Len(req.query) : req.query[j].key = key}}

KeysOf(req) == {req.query[i].key : i \in 1..Len(req.query)}

\* C23: the overview request of a Guard Runner carries platform and
\* time_range, and carries group_id exactly when the identifier given is not
\* blank once trimmed, with the trimmed value; the thresholds request carries
\* no filter; so for each stage of a drill the stub host gets the identifier
\* run_guard passed.
C23_RequestFilters ==
    /\ \A i \in 1..Len(requests) :
          /\ requests[i].path \in {ThresholdsPath, OverviewPath}
          /\ requests[i].path = ThresholdsPath => requests[i].query = <<>>
          /\ requests[i].path = OverviewPath =>
                /\ ValuesOf(requests[i], "platform") = {args.platform}
                /\ ValuesOf(requests[i], "time_range") = {args.time_range}
                /\ ValuesOf(requests[i], "group_id") =
                      IF Strip(args.group_id) = <<>> THEN {}
                      ELSE {Strip(args.group_id)}
                /\ KeysOf(requests[i]) \subseteq {"platform", "time_range", "group_id"}
                /\ Len(requests[i].query) = Cardinality(KeysOf(requests[i]))
    /\ (inflight # <<>> /\ Len(requests) = 2) =>
          /\ ValuesOf(requests[2], "group_id") = {<<inflight[1]>>}
          /\ StageOf(requests[2].query) = <<inflight[1]>>

\* A guard given " A " has asked for the overview of group_id "A".
C23_Witness ==
    /\ Len(requests) = 2
    /\ args.group_id = <<" ", "A", " ">>
    /\ requests[1].query = <<>>
    /\ requests[2].query = <<Param("platform", <<"openai">>),
                             Param("time_range", <<"30m">>),
                             Param("group_id", <<"A">>)>>

====
